---- MODULE Spec2Model ----
(***************************************************************************)
(* Model of src/main.py: the CNPJ normaliser, the jurisdiction resolver,   *)
(* the registry client, the evidence aggregator, the court probe and the   *)
(* three POST handlers built from them.                                    *)
(*                                                                         *)
(* A Python str is a sequence of one-character strings, so that re.sub,    *)
(* upper, lower, strip, "in" and str.count are computed character by       *)
(* character.  URLs, which the code only builds and hands on, are          *)
(* sequences of fragments.  A Python/JSON value is a record [t, s, n]: its *)
(* type tag, its characters when a str, its number when an int.            *)
(***************************************************************************)
EXTENDS Integers, Sequences, FiniteSets, TLC

VARIABLES handler, req, today, upstream, calls, outcome, perfil, juris, evidence, court, arg, ret

vars == <<handler, req, today, upstream, calls, outcome, perfil, juris, evidence, court, arg, ret>>

\* ---------------------------------------------------------------- values

PyNone == [t |-> "none", s |-> <<>>, n |-> 0]

PyStr(chars) == [t |-> "str", s |-> chars, n |-> 0]

PyInt(k) == [t |-> "int", s |-> <<>>, n |-> k]

\* Python truthiness: bool(v).
Truthy(v) ==
    CASE v.t = "none" -> FALSE
      [] v.t = "str" -> v.s # <<>>
      [] v.t = "int" -> v.n # 0
      [] OTHER -> TRUE

\* Python's  a or b.
Or(a, b) == IF Truthy(a) THEN a ELSE b

\* --------------------------------------------------------------- strings

LOWERCASE == <<"a","b","c","d","e","f","g","h","i","j","k","l","m","n","o","p","q","r","s","t","u","v","w","x","y","z","ç","ã","ê","é","ó">>

UPPERCASE == <<"A","B","C","D","E","F","G","H","I","J","K","L","M","N","O","P","Q","R","S","T","U","V","W","X","Y","Z","Ç","Ã","Ê","É","Ó">>

DIGITS == <<"0","1","2","3","4","5","6","7","8","9">>

WHITESPACE == {" ", "\t", "\n"}

IndexOf(seq, c) == IF \E i \in 1..Len(seq) : seq[i] = c
                   THEN CHOOSE i \in 1..Len(seq) : seq[i] = c
                   ELSE 0

UpperChar(c) == IF IndexOf(LOWERCASE, c) > 0 THEN UPPERCASE[IndexOf(LOWERCASE, c)] ELSE c

LowerChar(c) == IF IndexOf(UPPERCASE, c) > 0 THEN LOWERCASE[IndexOf(UPPERCASE, c)] ELSE c

\* str.upper() and str.lower()
Upper(s) == [i \in 1..Len(s) |-> UpperChar(s[i])]

Lower(s) == [i \in 1..Len(s) |-> LowerChar(s[i])]

\* str.strip(): leading and trailing whitespace removed.
Strip(s) ==
    LET keep == {i \in 1..Len(s) : s[i] \notin WHITESPACE}
    IN  IF keep = {} THEN <<>>
        ELSE LET lo == CHOOSE i \in keep : \A j \in keep : i <= j
                 hi == CHOOSE i \in keep : \A j \in keep : j <= i
             IN  SubSeq(s, lo, hi)

\* s[:k]
Take(s, k) == SubSeq(s, 1, IF Len(s) < k THEN Len(s) ELSE k)

\* needle in hay
Contains(hay, needle) ==
    \E i \in 1..(Len(hay) - Len(needle) + 1) : SubSeq(hay, i, i + Len(needle) - 1) = needle

\* hay.count(needle): non-overlapping occurrences, scanning from the left.
RECURSIVE CountFrom(_, _, _)
CountFrom(hay, needle, i) ==
    IF i + Len(needle) - 1 > Len(hay) THEN 0
    ELSE IF SubSeq(hay, i, i + Len(needle) - 1) = needle
         THEN 1 + CountFrom(hay, needle, i + Len(needle))
         ELSE CountFrom(hay, needle, i + 1)

Count(hay, needle) == CountFrom(hay, needle, 1)

\* sep.join(parts)
RECURSIVE Join(_, _)
Join(sep, parts) ==
    IF parts = <<>> THEN <<>>
    ELSE IF Len(parts) = 1 THEN parts[1]
    ELSE parts[1] \o sep \o Join(sep, Tail(parts))

IsDigit(c) == IndexOf(DIGITS, c) > 0

\* Mutant of normalize_cnpj: the non-digits are kept.
normalize_cnpj_keeps_all(cnpj) == Or(cnpj, PyStr(<<>>)).s

\* src/main.py:67  re.sub(r"\D", "", cnpj or "")
normalize_cnpj(cnpj) == SelectSeq(Or(cnpj, PyStr(<<>>)).s, IsDigit)

CNPJ_LEN == 14

\* -------------------------------------------------------------- years_since

DigitVal(c) == IndexOf(DIGITS, c) - 1

Number(s) == IF Len(s) = 2 THEN 10 * DigitVal(s[1]) + DigitVal(s[2])
             ELSE 1000 * DigitVal(s[1]) + 100 * DigitVal(s[2]) + 10 * DigitVal(s[3]) + DigitVal(s[4])

IsLeap(y) == (y % 4 = 0 /\ y % 100 # 0) \/ y % 400 = 0

DaysIn(y, m) == IF m = 2 THEN (IF IsLeap(y) THEN 29 ELSE 28)
                ELSE IF m \in {4, 6, 9, 11} THEN 30 ELSE 31

Shaped(s) ==
    /\ Len(s) = 10
    /\ s[5] = "-" /\ s[8] = "-"
    /\ \A i \in {1, 2, 3, 4, 6, 7, 9, 10} : IsDigit(s[i])

ValidDate(y, m, d) ==
    IF y >= 1 /\ m \in 1..12 /\ d \in 1..DaysIn(y, m)
    THEN [ok |-> TRUE, year |-> y, month |-> m, day |-> d]
    ELSE [ok |-> FALSE, year |-> 0, month |-> 0, day |-> 0]

\* datetime.fromisoformat(s).date(), with the strptime("%Y-%m-%d") fallback, on a
\* str: ok = FALSE when both raise.  The strings drawn are YYYY-MM-DD shaped or
\* not dates at all, where the two parsers agree.
ParseDate(s) ==
    IF Shaped(s)
    THEN ValidDate(Number(SubSeq(s, 1, 4)), Number(SubSeq(s, 6, 7)), Number(SubSeq(s, 9, 10)))
    ELSE [ok |-> FALSE, year |-> 0, month |-> 0, day |-> 0]

\* Python's tuple comparison (a1, a2) < (b1, b2)
TupleLess(a1, a2, b1, b2) == a1 < b1 \/ (a1 = b1 /\ a2 < b2)

\* src/main.py:83-84
YearsBetween(d, now) ==
    IF ~d.ok THEN PyNone
    ELSE PyInt(now.year - d.year
               - (IF TupleLess(now.month, now.day, d.month, d.day) THEN 1 ELSE 0))

\* src/main.py:71-84.  A value that is not a str makes both parsers raise
\* TypeError, which the two except clauses catch.
years_since(iso_date, now) ==
    IF ~Truthy(iso_date) THEN PyNone
    ELSE IF iso_date.t # "str" THEN PyNone
    ELSE YearsBetween(ParseDate(iso_date.s), now)

\* ------------------------------------------------------------ jurisdiction

UfKeys(region, ufs) == [k \in ufs |-> region]

\* src/main.py:91-105
TRF_BY_UF ==
    UfKeys("TRF1", {<<"A", "C">>, <<"A", "M">>, <<"A", "P">>, <<"B", "A">>, <<"D", "F">>, <<"G", "O">>, <<"M", "A">>, <<"M", "T">>, <<"P", "A">>, <<"P", "I">>, <<"R", "O">>, <<"R", "R">>, <<"T", "O">>})
    @@ UfKeys("TRF2", {<<"R", "J">>, <<"E", "S">>})
    @@ UfKeys("TRF3", {<<"S", "P">>, <<"M", "S">>})
    @@ UfKeys("TRF4", {<<"P", "R">>, <<"S", "C">>, <<"R", "S">>})
    @@ UfKeys("TRF5", {<<"A", "L">>, <<"C", "E">>, <<"P", "B">>, <<"P", "E">>, <<"R", "N">>, <<"S", "E">>})
    @@ UfKeys("TRF6", {<<"M", "G">>})

\* src/main.py:107-132
TRT_BY_UF ==
    UfKeys("TRT1", {<<"R", "J">>}) @@ UfKeys("TRT3", {<<"M", "G">>}) @@ UfKeys("TRT4", {<<"R", "S">>})
    @@ UfKeys("TRT5", {<<"B", "A">>}) @@ UfKeys("TRT6", {<<"P", "E">>}) @@ UfKeys("TRT7", {<<"C", "E">>})
    @@ UfKeys("TRT8", {<<"P", "A">>, <<"A", "P">>}) @@ UfKeys("TRT9", {<<"P", "R">>})
    @@ UfKeys("TRT10", {<<"D", "F">>, <<"T", "O">>}) @@ UfKeys("TRT11", {<<"A", "M">>, <<"R", "R">>})
    @@ UfKeys("TRT12", {<<"S", "C">>}) @@ UfKeys("TRT13", {<<"P", "B">>})
    @@ UfKeys("TRT14", {<<"R", "O">>, <<"A", "C">>}) @@ UfKeys("TRT16", {<<"M", "A">>})
    @@ UfKeys("TRT17", {<<"E", "S">>}) @@ UfKeys("TRT18", {<<"G", "O">>}) @@ UfKeys("TRT19", {<<"A", "L">>})
    @@ UfKeys("TRT20", {<<"S", "E">>}) @@ UfKeys("TRT21", {<<"R", "N">>}) @@ UfKeys("TRT22", {<<"P", "I">>})
    @@ UfKeys("TRT23", {<<"M", "T">>}) @@ UfKeys("TRT24", {<<"M", "S">>})
    @@ UfKeys("TRT2/TRT15", {<<"S", "P">>})

\* src/main.py:156-163
TRF_LINKS ==
    ("TRF1" :> "https://portal.trf1.jus.br") @@ ("TRF2" :> "https://www.trf2.jus.br")
    @@ ("TRF3" :> "https://www.trf3.jus.br") @@ ("TRF4" :> "https://www.trf4.jus.br")
    @@ ("TRF5" :> "https://www.trf5.jus.br") @@ ("TRF6" :> "https://www.trf6.jus.br")

\* dict.get(key): the value (a one-fragment str), or None
TableGet(table, key) == IF key \in DOMAIN table THEN PyStr(<<table[key]>>) ELSE PyNone

\* The result before anything is resolved; raised marks a call that raised.
NoJuris == [raised |-> FALSE, uf |-> PyNone, municipio |-> PyNone, trf |-> PyNone, trt |-> PyNone,
            links |-> [cadastro_base |-> PyNone, jusbrasil_busca |-> PyNone, tj_home |-> PyNone,
                       trt_pje |-> PyNone, trf_home |-> PyNone]]

NoEvidence == [query |-> <<>>, sources |-> <<>>, limitations |-> <<>>,
               signals |-> [index_sources_ok |-> 0, index_sources_blocked |-> 0,
                            term_counts |-> <<>>, top_findings |-> <<>>]]

NoCourt == [cnpj |-> <<>>, uf |-> PyNone, municipio |-> PyNone,
            jurisdicao |-> [trf |-> PyNone, trt |-> PyNone], attempts |-> <<>>]

\* Mutant of UfNorm: the state is trimmed but not upper-cased.
UfNorm_no_upper(uf) ==
    IF Strip(Or(uf, PyStr(<<>>)).s) # <<>> THEN PyStr(Strip(Or(uf, PyStr(<<>>)).s)) ELSE PyNone

\* src/main.py:135  (uf or "").upper().strip() or None, on None or a str
UfNorm(uf) ==
    IF Strip(Upper(Or(uf, PyStr(<<>>)).s)) # <<>>
    THEN PyStr(Strip(Upper(Or(uf, PyStr(<<>>)).s)))
    ELSE PyNone

\* src/main.py:136-137  TABLE.get(uf_norm) if uf_norm else None
Region(table, uf_norm) == IF Truthy(uf_norm) THEN TableGet(table, uf_norm.s) ELSE PyNone

\* src/main.py:148  cnpj_digits if cnpj_digits else (razao_social or "")
Query(cnpj_digits, razao_social) ==
    IF cnpj_digits # <<>> THEN PyStr(cnpj_digits) ELSE Or(razao_social, PyStr(<<>>))

\* src/main.py:140-166
Links(uf_norm, municipio, trf, trt, q) ==
    [raised |-> FALSE,
     uf |-> uf_norm,
     municipio |-> municipio,
     trf |-> trf,
     trt |-> trt,
     links |-> [cadastro_base |-> PyStr(<<"https://brasilapi.com.br">>),
                jusbrasil_busca |-> IF Truthy(q)
                                    THEN PyStr(<<"https://www.jusbrasil.com.br/busca?q=">> \o q.s)
                                    ELSE PyNone,
                tj_home |-> IF Truthy(uf_norm)
                            THEN PyStr(<<"https://www.tj">> \o Lower(uf_norm.s) \o <<".jus.br">>)
                            ELSE PyNone,
                trt_pje |-> PyStr(<<"https://pje.trt.jus.br/consultaprocessual/">>),
                trf_home |-> IF Truthy(trf) THEN TableGet(TRF_LINKS, trf.s[1]) ELSE PyNone]]

ResolveLinks(uf_norm, municipio, q) ==
    Links(uf_norm, municipio, Region(TRF_BY_UF, uf_norm), Region(TRT_BY_UF, uf_norm), q)

\* src/main.py:134-166.  (uf or "").upper() raises AttributeError when uf is truthy
\* and no str: the record then has raised = TRUE and nothing else is computed.
tribunal_links(uf, municipio, cnpj_digits, razao_social) ==
    IF Truthy(uf) /\ uf.t # "str" THEN [NoJuris EXCEPT !.raised = TRUE]
    ELSE ResolveLinks(UfNorm(uf), municipio, Query(cnpj_digits, razao_social))

\* ---------------------------------------------------------- registry client

\* The registry's JSON document: its JSON type and, for an object, the fields the
\* handlers read (d.get(k) is None for an absent key as for a null one).
FieldNames == {"razao_social", "data_inicio_atividade", "uf", "municipio",
               "logradouro", "numero", "bairro", "cep"}

NoFields == [k \in FieldNames |-> PyNone]

Get(d, k) == d.f[k]

\* A body that is no JSON object (null, here), and so has no fields
NoDoc == [t |-> "none", f |-> <<>>]

REGISTRY_URL(cnpj_digits) == <<"https://brasilapi.com.br/api/cnpj/v1/">> \o cnpj_digits

\* src/main.py:173-183.  up is what the upstream does: exc (client.get raises),
\* or a response with its status and, for r.json(), whether the body parses and
\* the document it parses to.  r.json() raising is caught by the same except.
fetch_brasilapi_cnpj(cnpj_digits, up) ==
    IF up.exc
    THEN [ok |-> FALSE, source |-> "brasilapi_cnpj", keys |-> {"ok", "source", "error"},
          status_code |-> 0, data |-> NoDoc]
    ELSE IF up.status = 200
         THEN IF up.json_ok
              THEN [ok |-> TRUE, source |-> "brasilapi_cnpj", keys |-> {"ok", "source", "data"},
                    status_code |-> 0, data |-> up.doc]
              ELSE [ok |-> FALSE, source |-> "brasilapi_cnpj", keys |-> {"ok", "source", "error"},
                    status_code |-> 0, data |-> NoDoc]
         ELSE [ok |-> FALSE, source |-> "brasilapi_cnpj", keys |-> {"ok", "source", "status_code", "text"},
               status_code |-> up.status, data |-> NoDoc]

\* An outbound call: the collaborator it goes to and the URL fetched
RegistryCall(cnpj_digits) == [to |-> "registry", url |-> REGISTRY_URL(cnpj_digits)]

\* ------------------------------------------------------------ analyze_public

\* src/main.py:198-211
NewProfile(cnpj_digits, razao_social) ==
    [cnpj |-> cnpj_digits, razao_social_informada |-> razao_social,
     razao_social_encontrada |-> PyNone, data_abertura |-> PyNone, idade_anos |-> PyNone,
     uf |-> PyNone, municipio |-> PyNone, endereco |-> PyNone,
     fontes |-> <<>>, limitacoes |-> <<>>, cadastro_erro |-> FALSE]

NoProfile == NewProfile(<<>>, PyNone)

\* [x for x in parts if x]
Truthies(parts) == SelectSeq(parts, Truthy)

StrsOf(parts) == [i \in 1..Len(parts) |-> parts[i].s]

\* A handler's result: the outcome ("cnpj_invalido", "returned", or "raised" when
\* an exception leaves the handler), the outbound calls in order, and the
\* objects the handler built.
Result(outcome_, calls_, perfil_, juris_, evidence_, court_) ==
    [outcome |-> outcome_, calls |-> calls_, perfil |-> perfil_, juris |-> juris_,
     evidence |-> evidence_, court |-> court_]

\* src/main.py:228
JoinAddress(profile, parts) ==
    IF \E i \in 1..Len(parts) : parts[i].t # "str"
    THEN [raised |-> TRUE, profile |-> profile]
    ELSE [raised |-> FALSE,
          profile |-> [profile EXCEPT !.endereco = PyStr(Join(<<",", " ">>, StrsOf(parts)))]]

\* src/main.py:224-228
WithAddress(profile, d) ==
    JoinAddress(profile, Truthies(<<Or(Get(d, "logradouro"), PyStr(<<>>)),
                                    Or(Get(d, "numero"), PyStr(<<>>)),
                                    Or(Get(d, "bairro"), PyStr(<<>>)),
                                    profile.municipio, profile.uf,
                                    Or(Get(d, "cep"), PyStr(<<>>))>>))

\* src/main.py:213-228, the branch taken when cadastro["ok"]: the profile as the
\* branch leaves it, and whether it raised (d.get on a document that is no
\* object; ", ".join over a truthy part that is no str).
ProfileFromData(profile, d, now) ==
    IF d.t # "dict"
    THEN [raised |-> TRUE,
          profile |-> [profile EXCEPT !.fontes = Append(@, "BrasilAPI CNPJ (fonte pública)")]]
    ELSE WithAddress([profile EXCEPT !.fontes = Append(@, "BrasilAPI CNPJ (fonte pública)"),
                                     !.razao_social_encontrada = Get(d, "razao_social"),
                                     !.data_abertura = Get(d, "data_inicio_atividade"),
                                     !.idade_anos = years_since(Get(d, "data_inicio_atividade"), now),
                                     !.uf = Get(d, "uf"),
                                     !.municipio = Get(d, "municipio")], d)

\* Mutant of ProfileFromFailure: the failure is recorded in fontes but no
\* limitation is appended.
ProfileFromFailure_silent(profile) ==
    [raised |-> FALSE,
     profile |-> [profile EXCEPT !.fontes = Append(@, "BrasilAPI CNPJ (falhou)"),
                                 !.cadastro_erro = TRUE]]

\* src/main.py:229-232
ProfileFromFailure(profile) ==
    [raised |-> FALSE,
     profile |-> [profile EXCEPT !.limitacoes = Append(@, "Não foi possível obter cadastro via BrasilAPI (instabilidade, limite ou falha)."),
                                 !.fontes = Append(@, "BrasilAPI CNPJ (falhou)"),
                                 !.cadastro_erro = TRUE]]

\* src/main.py:213-232
BuildProfile(profile, cadastro, now) ==
    IF cadastro.ok THEN ProfileFromData(profile, cadastro.data, now)
    ELSE ProfileFromFailure(profile)

\* src/main.py:236-240
AnalyzeReturn(made, profile, j) ==
    IF j.raised THEN Result("raised", made, profile, NoJuris, NoEvidence, NoCourt)
    ELSE Result("returned", made, profile, j, NoEvidence, NoCourt)

\* src/main.py:234
AnalyzeJuris(r, cnpj_digits, built) ==
    IF built.raised
    THEN Result("raised", <<RegistryCall(cnpj_digits)>>, built.profile, NoJuris, NoEvidence, NoCourt)
    ELSE AnalyzeReturn(<<RegistryCall(cnpj_digits)>>, built.profile,
                       tribunal_links(built.profile.uf, built.profile.municipio, cnpj_digits,
                                      Or(built.profile.razao_social_encontrada, r.razao_social)))

\* src/main.py:193-232
AnalyzeDigits(r, cnpj_digits, up, now) ==
    IF Len(cnpj_digits) # CNPJ_LEN
    THEN Result("cnpj_invalido", <<>>, NoProfile, NoJuris, NoEvidence, NoCourt)
    ELSE AnalyzeJuris(r, cnpj_digits,
                      BuildProfile(NewProfile(cnpj_digits, r.razao_social),
                                   fetch_brasilapi_cnpj(cnpj_digits, up), now))

\* src/main.py:190-240
analyze_public(r, up, now) == AnalyzeDigits(r, normalize_cnpj(r.cnpj), up, now)

\* ----------------------------------------------------------- evidence_search

\* src/main.py:247-255: the keys in their declared order, and each key's variants
KEY_ORDER == <<"execucao", "execucao_fiscal", "protesto", "falencia",
               "recuperacao_judicial", "trabalhista", "cobranca">>

KEY_TERMS ==
    [k \in {KEY_ORDER[i] : i \in 1..Len(KEY_ORDER)} |->
        CASE k = "execucao" -> << <<"e", "x", "e", "c", "u", "ç", "ã", "o">>, <<"e", "x", "e", "c", "u", "c", "a", "o">> >>
          [] k = "execucao_fiscal" -> << <<"e", "x", "e", "c", "u", "ç", "ã", "o", " ", "f", "i", "s", "c", "a", "l">>, <<"e", "x", "e", "c", "u", "c", "a", "o", " ", "f", "i", "s", "c", "a", "l">> >>
          [] k = "protesto" -> << <<"p", "r", "o", "t", "e", "s", "t", "o">>, <<"c", "a", "r", "t", "ó", "r", "i", "o">>, <<"c", "a", "r", "t", "o", "r", "i", "o">> >>
          [] k = "falencia" -> << <<"f", "a", "l", "ê", "n", "c", "i", "a">>, <<"f", "a", "l", "e", "n", "c", "i", "a">> >>
          [] k = "recuperacao_judicial" -> << <<"r", "e", "c", "u", "p", "e", "r", "a", "ç", "ã", "o", " ", "j", "u", "d", "i", "c", "i", "a", "l">>, <<"r", "e", "c", "u", "p", "e", "r", "a", "c", "a", "o", " ", "j", "u", "d", "i", "c", "i", "a", "l">> >>
          [] k = "trabalhista" -> << <<"t", "r", "a", "b", "a", "l", "h", "i", "s", "t", "a">>, <<"r", "e", "c", "l", "a", "m", "a", "t", "ó", "r", "i", "a">>, <<"r", "e", "c", "l", "a", "m", "a", "t", "o", "r", "i", "a">>,
                                     <<"v", "e", "r", "b", "a", "s", " ", "r", "e", "s", "c", "i", "s", "ó", "r", "i", "a", "s">>, <<"v", "e", "r", "b", "a", "s", " ", "r", "e", "s", "c", "i", "s", "o", "r", "i", "a", "s">> >>
          [] k = "cobranca" -> << <<"c", "o", "b", "r", "a", "n", "ç", "a">>, <<"c", "o", "b", "r", "a", "n", "c", "a">>, <<"c", "o", "b", "r", "a", "n", "ç", "a", " ", "j", "u", "d", "i", "c", "i", "a", "l">>, <<"c", "o", "b", "r", "a", "n", "c", "a", " ", "j", "u", "d", "i", "c", "i", "a", "l">> >>]

TEXT_LIMIT == 200000

\* Mutant of safe_fetch_text: the status is not looked at.
safe_fetch_text_any_status(url, up) ==
    IF up.exc
    THEN [ok |-> FALSE, keys |-> {"ok", "url", "error"}, url |-> url, status |-> 0, text |-> <<>>]
    ELSE [ok |-> TRUE, keys |-> {"ok", "url", "status", "text"}, url |-> url,
          status |-> up.status, text |-> Take(up.text, 200000)]

\* src/main.py:257-267.  up: exc (the GET raises), or a response's status and text.
safe_fetch_text(url, up) ==
    IF up.exc
    THEN [ok |-> FALSE, keys |-> {"ok", "url", "error"}, url |-> url, status |-> 0, text |-> <<>>]
    ELSE IF up.status # 200
         THEN [ok |-> FALSE, keys |-> {"ok", "url", "status", "note"}, url |-> url,
               status |-> up.status, text |-> <<>>]
         ELSE [ok |-> TRUE, keys |-> {"ok", "url", "status", "text"}, url |-> url,
               status |-> 200, text |-> Take(up.text, TEXT_LIMIT)]

RECURSIVE SumCounts(_, _)
SumCounts(low, variants) ==
    IF variants = <<>> THEN 0
    ELSE Count(low, Lower(variants[1])) + SumCounts(low, Tail(variants))

\* src/main.py:269-274: a dict, as the sequence of its items in insertion order
count_terms(text) ==
    LET low == Lower(text)
    IN  [i \in 1..Len(KEY_ORDER) |-> [k |-> KEY_ORDER[i], v |-> SumCounts(low, KEY_TERMS[KEY_ORDER[i]])]]

IsHit(item) == item.v # 0 /\ item.v > 0

\* Mutant of InsertDesc: an item goes before the items of equal hits (a sort
\* that reverses ties).
InsertDesc_unstable(sorted, item) ==
    LET n == Cardinality({i \in 1..Len(sorted) : sorted[i].v > item.v})
    IN  SubSeq(sorted, 1, n) \o <<item>> \o SubSeq(sorted, n + 1, Len(sorted))

\* list.sort(key=hits, reverse=True) is stable: an item goes after the items whose
\* hits are no smaller, those met earlier among them included.
InsertDesc(sorted, item) ==
    LET n == Cardinality({i \in 1..Len(sorted) : sorted[i].v >= item.v})
    IN  SubSeq(sorted, 1, n) \o <<item>> \o SubSeq(sorted, n + 1, Len(sorted))

RECURSIVE SortDesc(_)
SortDesc(items) ==
    IF items = <<>> THEN <<>>
    ELSE InsertDesc(SortDesc(SubSeq(items, 1, Len(items) - 1)), items[Len(items)])

TOP_N == 6

\* src/main.py:276-279
top_findings(counts) ==
    LET items == SortDesc(SelectSeq(counts, IsHit))
        top   == Take(items, TOP_N)
    IN  [i \in 1..Len(top) |-> [term |-> top[i].k, hits |-> top[i].v]]

JUS_URL(q) == <<"https://www.jusbrasil.com.br/busca?q=">> \o q

ESC_URL(q) == <<"https://www.escavador.com/busca?qo=">> \o q

\* src/main.py:313-333
EvidenceReturn(q, sources, limitations, counts) ==
    Result("returned",
           <<[to |-> "jusbrasil", url |-> JUS_URL(q)], [to |-> "escavador", url |-> ESC_URL(q)]>>,
           NoProfile, NoJuris,
           [query |-> q, sources |-> sources, limitations |-> limitations,
            signals |-> [index_sources_ok |-> Len(sources),
                         index_sources_blocked |-> Len(limitations),
                         term_counts |-> counts,
                         top_findings |-> top_findings(counts)]],
           NoCourt)

\* src/main.py:297-302: the text, sources and limitations after the first source
AfterJus(q, jus) ==
    IF jus.ok
    THEN [text |-> jus.text, sources |-> <<[source |-> "jusbrasil", url |-> JUS_URL(q)]>>,
          limitations |-> <<>>]
    ELSE [text |-> <<>>, sources |-> <<>>,
          limitations |-> <<[source |-> "jusbrasil", url |-> JUS_URL(q), detail |-> jus]>>]

\* src/main.py:304-308: and after the second
AfterEsc(q, acc, esc) ==
    IF esc.ok
    THEN [text |-> acc.text \o <<"\n">> \o esc.text,
          sources |-> Append(acc.sources, [source |-> "escavador", url |-> ESC_URL(q)]),
          limitations |-> acc.limitations]
    ELSE [text |-> acc.text, sources |-> acc.sources,
          limitations |-> Append(acc.limitations,
                                 [source |-> "escavador", url |-> ESC_URL(q), detail |-> esc])]

\* src/main.py:310-311
EvidenceCounts(q, acc) == EvidenceReturn(q, acc.sources, acc.limitations, count_terms(acc.text))

\* src/main.py:284-308
EvidenceDigits(cnpj_digits, upJus, upEsc) ==
    IF Len(cnpj_digits) # CNPJ_LEN
    THEN Result("cnpj_invalido", <<>>, NoProfile, NoJuris, NoEvidence, NoCourt)
    ELSE EvidenceCounts(cnpj_digits,
                        AfterEsc(cnpj_digits,
                                 AfterJus(cnpj_digits, safe_fetch_text(JUS_URL(cnpj_digits), upJus)),
                                 safe_fetch_text(ESC_URL(cnpj_digits), upEsc)))

\* src/main.py:281-333
evidence_search(r, upJus, upEsc) == EvidenceDigits(normalize_cnpj(r.cnpj), upJus, upEsc)

\* ------------------------------------------------------------- court_attempt

\* src/main.py:344-352, on the lower-cased text: the first signature found wins
BlockReasonOf(h) ==
    IF Contains(h, <<"c", "a", "p", "t", "c", "h", "a">>) \/ Contains(h, <<"r", "e", "c", "a", "p", "t", "c", "h", "a">>) THEN "captcha"
    ELSE IF Contains(h, <<"c", "l", "o", "u", "d", "f", "l", "a", "r", "e">>) \/ Contains(h, <<"a", "t", "t", "e", "n", "t", "i", "o", "n", " ", "r", "e", "q", "u", "i", "r", "e", "d">>) THEN "cloudflare"
    ELSE IF Contains(h, <<"e", "n", "a", "b", "l", "e", " ", "j", "a", "v", "a", "s", "c", "r", "i", "p", "t">>) \/ Contains(h, <<"j", "a", "v", "a", "s", "c", "r", "i", "p", "t", " ", "i", "s", " ", "r", "e", "q", "u", "i", "r", "e", "d">>)
         THEN "javascript_required"
    ELSE IF Contains(h, <<"a", "c", "c", "e", "s", "s", " ", "d", "e", "n", "i", "e", "d">>) \/ Contains(h, <<"f", "o", "r", "b", "i", "d", "d", "e", "n">>) THEN "access_denied"
    ELSE "None"

\* src/main.py:340-352: the block reason, "None" when there is none
detect_block_reason(html) == IF html = <<>> THEN "None" ELSE BlockReasonOf(Lower(html))

\* Mutant of Probed: ok looks at the status alone.
Probed_status_only(url, status, reason) ==
    [keys |-> {"url", "http_status", "ok", "block_reason"}, url |-> url,
     http_status |-> status, ok |-> (status = 200), block_reason |-> reason, note |-> ""]

\* src/main.py:361-367.  keys are the keys of the dict returned.
Probed(url, status, reason) ==
    [keys |-> {"url", "http_status", "ok", "block_reason"}, url |-> url,
     http_status |-> status,
     ok |-> (status = 200) /\ (reason = "None"),
     block_reason |-> reason, note |-> ""]

\* src/main.py:354-369
fetch_probe(url, up) ==
    IF up.exc
    THEN [keys |-> {"url", "ok", "error"}, url |-> url, http_status |-> 0, ok |-> FALSE,
          block_reason |-> "None", note |-> ""]
    ELSE Probed(url, up.status, detect_block_reason(Take(up.text, TEXT_LIMIT)))

\* src/main.py:410, 425, 440: the probe of a court with no URL
Unavailable(note) ==
    [keys |-> {"ok", "note"}, url |-> <<>>, http_status |-> 0, ok |-> FALSE,
     block_reason |-> "None", note |-> note]

\* src/main.py:402-407, 417-422, 432-437
MANUAL_INSTRUCTIONS ==
    [source \in {"TJ", "TRT_PJe_JT", "TRF"} |->
        CASE source = "TJ" ->
                <<"Abra o site do TJ.",
                  "Procure por 'Consulta Processual' ou 'Consulta de Processos'.",
                  "Tente pesquisar por CNPJ (se existir campo) ou por razão social.",
                  "Se houver captcha/JS, a consulta precisará ser manual.">>
          [] source = "TRT_PJe_JT" ->
                <<"Abra o PJe - Consulta Processual.",
                  "Selecione o grau (1º/2º) se solicitado.",
                  "Pesquise por CNPJ e/ou razão social.",
                  "Se o portal pedir captcha, registre como bloqueado e faça manualmente.">>
          [] source = "TRF" ->
                <<"Abra o site do TRF competente.",
                  "Procure por 'Consulta Processual' (e-Proc/PJe/Consulta Pública).",
                  "Pesquise por CNPJ/razão social quando disponível.",
                  "Se houver captcha/JS, a consulta precisará ser manual.">>]

\* src/main.py:398-410 (and 413-425, 428-440): one court's attempt record, with
\* the keys the dict has.
Attempt(source, url, up, note) ==
    IF Truthy(url)
    THEN [keys |-> {"source", "probe", "manual_instructions"}, source |-> source,
          probe |-> fetch_probe(url.s, up), manual_instructions |-> MANUAL_INSTRUCTIONS[source]]
    ELSE [keys |-> {"source", "probe"}, source |-> source,
          probe |-> Unavailable(note), manual_instructions |-> <<>>]

ProbeCalls(source, url) == IF Truthy(url) THEN <<[to |-> source, url |-> url.s]>> ELSE <<>>

\* src/main.py:377-378:  (x or "").upper().strip() or None,  (x or "").strip() or None
StripOrNone(chars) == IF chars # <<>> THEN PyStr(chars) ELSE PyNone

\* src/main.py:391-449
CourtReturn(cnpj_digits, made, uf, municipio, j, upTj, upTrt, upTrf) ==
    IF j.raised THEN Result("raised", made, NoProfile, NoJuris, NoEvidence, NoCourt)
    ELSE Result("returned",
                made \o ProbeCalls("TJ", j.links.tj_home) \o ProbeCalls("TRT_PJe_JT", j.links.trt_pje)
                     \o ProbeCalls("TRF", j.links.trf_home),
                NoProfile, j, NoEvidence,
                [cnpj |-> cnpj_digits, uf |-> uf, municipio |-> municipio,
                 jurisdicao |-> [trf |-> j.trf, trt |-> j.trt],
                 attempts |-> <<Attempt("TJ", j.links.tj_home, upTj, "tj_url_indisponivel"),
                                Attempt("TRT_PJe_JT", j.links.trt_pje, upTrt, "trt_url_indisponivel"),
                                Attempt("TRF", j.links.trf_home, upTrf, "trf_url_indisponivel")>>])

\* src/main.py:388
CourtJuris(r, cnpj_digits, made, uf, municipio, upTj, upTrt, upTrf) ==
    CourtReturn(cnpj_digits, made, uf, municipio,
                tribunal_links(uf, municipio, cnpj_digits, r.razao_social), upTj, upTrt, upTrf)

\* src/main.py:382-386: the registry lookup made when the request names no state
CourtLookup(r, cnpj_digits, uf, municipio, cadastro, upTj, upTrt, upTrf) ==
    IF ~cadastro.ok
    THEN CourtJuris(r, cnpj_digits, <<RegistryCall(cnpj_digits)>>, uf, municipio, upTj, upTrt, upTrf)
    ELSE IF cadastro.data.t # "dict"
    THEN Result("raised", <<RegistryCall(cnpj_digits)>>, NoProfile, NoJuris, NoEvidence, NoCourt)
    ELSE CourtJuris(r, cnpj_digits, <<RegistryCall(cnpj_digits)>>,
                    Or(Get(cadastro.data, "uf"), uf), Or(Get(cadastro.data, "municipio"), municipio),
                    upTj, upTrt, upTrf)

\* src/main.py:381
CourtState(r, cnpj_digits, uf, municipio, upReg, upTj, upTrt, upTrf) ==
    IF ~Truthy(uf)
    THEN CourtLookup(r, cnpj_digits, uf, municipio, fetch_brasilapi_cnpj(cnpj_digits, upReg),
                     upTj, upTrt, upTrf)
    ELSE CourtJuris(r, cnpj_digits, <<>>, uf, municipio, upTj, upTrt, upTrf)

\* src/main.py:374-378
CourtDigits(r, cnpj_digits, upReg, upTj, upTrt, upTrf) ==
    IF Len(cnpj_digits) # CNPJ_LEN
    THEN Result("cnpj_invalido", <<>>, NoProfile, NoJuris, NoEvidence, NoCourt)
    ELSE CourtState(r, cnpj_digits,
                    StripOrNone(Strip(Upper(Or(r.uf, PyStr(<<>>)).s))),
                    StripOrNone(Strip(Or(r.municipio, PyStr(<<>>)).s)),
                    upReg, upTj, upTrt, upTrf)

\* src/main.py:371-449
court_attempt(r, upReg, upTj, upTrt, upTrf) ==
    CourtDigits(r, normalize_cnpj(r.cnpj), upReg, upTj, upTrt, upTrf)

\* ------------------------------------------------------------------ inputs

\* Words per fetched text, for the indexer pages and for the probed pages
MaxEvWords == 2

MaxProbeWords == 3

\* Largest hit count drawn for top_findings
MaxHits == 2

\* Longest state string drawn for tribunal_links
MaxUfLen == 3

\* The texts of at most n words of a vocabulary, the words separated by a blank
RECURSIVE TextsOf(_, _)
TextsOf(words, n) ==
    IF n = 0 THEN {<<>>}
    ELSE LET shorter == TextsOf(words, n - 1)
         IN  shorter \cup words
             \cup {t \o <<" ">> \o w : t \in (shorter \ {<<>>}), w \in words}

\* The strings of at most n characters of an alphabet
RECURSIVE StringsOf(_, _)
StringsOf(alphabet, n) ==
    IF n = 0 THEN {<<>>}
    ELSE LET shorter == StringsOf(alphabet, n - 1)
         IN  shorter \cup {Append(t, c) : t \in shorter, c \in alphabet}

CnpjInputs == {PyStr(<<"1", "1", ".", "2", "2", "2", ".", "3", "3", "3", "/", "0", "0", "0", "1", "-", "4", "4">>), PyStr(<<"1", "1", "2", "2", "2", "3", "3", "3", "0", "0", "0", "1", "4", "4">>), PyStr(<<>>),
               PyStr(<<"1", "1", "2", "2", "2", "3", "3", "3", "0", "0", "0", "1", "4">>), PyStr(<<"1", "1", "2", "2", "2", "3", "3", "3", "0", "0", "0", "1", "4", "4", "5">>),
               PyStr(<<"1", "1", "2", "2", "2", "3", "3", "3", "0", "0", "0", "1", "4", "x">>), PyStr(<<"a", "b", ".", "c">>)}

NameInputs == {PyNone, PyStr(<<"A", "C", "M", "E">>)}

Request(cnpj, razao_social, uf, municipio) ==
    [cnpj |-> cnpj, razao_social |-> razao_social, uf |-> uf, municipio |-> municipio]

AnalyzeRequests == {Request(c, n, PyNone, PyNone) : c \in CnpjInputs, n \in NameInputs}

EvidenceRequests == {Request(c, PyNone, PyNone, PyNone) : c \in CnpjInputs}

CourtRequests ==
    {Request(c, PyNone, u, m) :
        c \in CnpjInputs,
        u \in {PyNone, PyStr(<<>>), PyStr(<<" ", " ">>), PyStr(<<"s", "p">>), PyStr(<<" ", "R", "J", " ">>), PyStr(<<"X", "X">>)},
        m \in {PyNone, PyStr(<<" ", "R", "i", "o", " ">>)}}

Day(y, m, d) == [year |-> y, month |-> m, day |-> d]

Todays == {Day(2025, 2, 28), Day(2025, 11, 5)}

NoDay == Day(0, 0, 0)

DateValues == {PyNone, PyInt(20240229), PyStr(<<"0", "5", "/", "1", "1", "/", "2", "0", "2", "4">>), PyStr(<<"2", "0", "2", "4", "-", "0", "2", "-", "2", "9">>),
               PyStr(<<"2", "0", "2", "5", "-", "0", "2", "-", "2", "9">>), PyStr(<<"2", "0", "2", "4", "-", "1", "1", "-", "0", "5">>), PyStr(<<"2", "0", "2", "5", "-", "0", "2", "-", "2", "8">>),
               PyStr(<<"2", "0", "2", "5", "-", "1", "1", "-", "0", "6">>), PyStr(<<"2", "0", "2", "6", "-", "0", "1", "-", "0", "1">>)}

UfValues == {PyNone, PyStr(<<>>), PyStr(<<"S", "P">>), PyStr(<<" ", "m", "g">>), PyStr(<<"X", "X">>), PyInt(35)}

CityValues == {PyNone, PyStr(<<"R", "i", "o">>), PyInt(7)}

PartValues == {PyNone, PyStr(<<"R", "u", "a", " ", "A">>), PyInt(100)}

Dict(f) == [t |-> "dict", f |-> f]

NonObjects == {NoDoc, [t |-> "list", f |-> <<>>], [t |-> "int", f |-> <<>>]}

\* Objects varying what the profile is built from, and objects varying the
\* address parts
ProfileDocs ==
    {Dict([NoFields EXCEPT !["razao_social"] = n, !["data_inicio_atividade"] = d,
                           !["uf"] = u, !["municipio"] = m, !["logradouro"] = l]) :
        n \in NameInputs, d \in DateValues, u \in UfValues, m \in CityValues, l \in PartValues}

AddressDocs ==
    {Dict([NoFields EXCEPT !["uf"] = PyStr(<<"S", "P">>), !["numero"] = a, !["bairro"] = b, !["cep"] = c]) :
        a \in PartValues, b \in PartValues, c \in PartValues}

StateDocs ==
    {Dict([NoFields EXCEPT !["uf"] = u, !["municipio"] = m]) : u \in UfValues, m \in CityValues}

Exception == [exc |-> TRUE, status |-> 0, json_ok |-> FALSE, doc |-> NoDoc,
              text |-> <<>>]

JsonResponse(status, json_ok, doc) ==
    [exc |-> FALSE, status |-> status, json_ok |-> json_ok, doc |-> doc, text |-> <<>>]

TextResponse(status, text) ==
    [exc |-> FALSE, status |-> status, json_ok |-> FALSE, doc |-> NoDoc,
     text |-> text]

\* The upstream of a call the handler did not make
NotCalled == [Exception EXCEPT !.exc = FALSE]

RegistryFailures == {Exception, JsonResponse(404, TRUE, Dict(NoFields)),
                     JsonResponse(500, FALSE, Dict(NoFields)),
                     JsonResponse(200, FALSE, Dict(NoFields))}

RegistryUpstreams(docs) == RegistryFailures \cup {JsonResponse(200, TRUE, d) : d \in docs \cup NonObjects}

AnalyzeUpstreams == RegistryUpstreams(ProfileDocs \cup AddressDocs)

CourtUpstreams == RegistryUpstreams(StateDocs)

EvWords == {<<"E", "x", "e", "c", "u", "ç", "ã", "o">>, <<"f", "i", "s", "c", "a", "l">>, <<"p", "r", "o", "t", "e", "s", "t", "o">>}

IndexerUpstreams ==
    {Exception, TextResponse(403, <<"F", "o", "r", "b", "i", "d", "d", "e", "n">>)}
    \cup {TextResponse(200, t) : t \in TextsOf(EvWords, MaxEvWords)}

ProbeUpstreams ==
    {Exception, TextResponse(200, <<>>), TextResponse(200, <<"T", "r", "i", "b", "u", "n", "a", "l">>),
     TextResponse(200, <<"G", "o", "o", "g", "l", "e", " ", "r", "e", "C", "A", "P", "T", "C", "H", "A">>), TextResponse(403, <<"A", "c", "c", "e", "s", "s", " ", "D", "e", "n", "i", "e", "d">>)}

\* What each collaborator answered, by the name the calls give it
NoUpstream == [to \in {"registry", "jusbrasil", "escavador", "TJ", "TRT_PJe_JT", "TRF"} |-> NotCalled]

NoRequest == Request(PyNone, PyNone, PyNone, PyNone)

\* What an upstream answered, when the handler called it
Answer(made, to, up) == IF \E i \in 1..Len(made) : made[i].to = to THEN up ELSE NotCalled

\* ----------------------------------------------------------- specification

Idle ==
    /\ handler = "idle"
    /\ req = NoRequest
    /\ today = NoDay
    /\ upstream = NoUpstream
    /\ calls = <<>>
    /\ outcome = "none"
    /\ perfil = NoProfile
    /\ juris = NoJuris
    /\ evidence = NoEvidence
    /\ court = NoCourt

Init == Idle /\ arg = <<>> /\ ret = <<>>

RequestsOf(h) ==
    CASE h = "analyze_public" -> AnalyzeRequests
      [] h = "evidence_search" -> EvidenceRequests
      [] h = "court_attempt" -> CourtRequests

\* A request arrives at one of the three POST routes.
Receive ==
    /\ handler = "idle"
    /\ \E h \in {"analyze_public", "evidence_search", "court_attempt"} :
        \E r \in RequestsOf(h) :
            /\ handler' = h
            /\ req' = r
            /\ outcome' = "pending"
    /\ UNCHANGED <<today, upstream, calls, perfil, juris, evidence, court, arg, ret>>

\* The handler ends: what it built, and what the upstreams it called answered.
Handled(now, ups, res) ==
    /\ today' = now
    /\ upstream' = [to \in DOMAIN ups |-> Answer(res.calls, to, ups[to])]
    /\ calls' = res.calls
    /\ outcome' = res.outcome
    /\ perfil' = res.perfil
    /\ juris' = res.juris
    /\ evidence' = res.evidence
    /\ court' = res.court
    /\ UNCHANGED <<handler, req, arg, ret>>

\* POST /analyze_public
AnalyzePublic ==
    /\ handler = "analyze_public" /\ outcome = "pending"
    /\ \E up \in AnalyzeUpstreams, now \in Todays :
        Handled(now, [NoUpstream EXCEPT !["registry"] = up], analyze_public(req, up, now))

\* POST /evidence_search
EvidenceSearch ==
    /\ handler = "evidence_search" /\ outcome = "pending"
    /\ \E upJus \in IndexerUpstreams, upEsc \in IndexerUpstreams :
        Handled(NoDay, [NoUpstream EXCEPT !["jusbrasil"] = upJus, !["escavador"] = upEsc],
                evidence_search(req, upJus, upEsc))

\* POST /court_attempt
CourtAttempt ==
    /\ handler = "court_attempt" /\ outcome = "pending"
    /\ \E upReg \in CourtUpstreams,
          upTj \in ProbeUpstreams, upTrt \in ProbeUpstreams, upTrf \in ProbeUpstreams :
        Handled(NoDay, [NoUpstream EXCEPT !["registry"] = upReg, !["TJ"] = upTj,
                                          !["TRT_PJe_JT"] = upTrt, !["TRF"] = upTrf],
                court_attempt(req, upReg, upTj, upTrt, upTrf))

\* The response is serialised (or the exception leaves the handler) and the
\* request's objects are discarded.
Respond ==
    /\ outcome \in {"cnpj_invalido", "returned", "raised"}
    /\ handler' = "idle"
    /\ req' = NoRequest
    /\ today' = NoDay
    /\ upstream' = NoUpstream
    /\ calls' = <<>>
    /\ outcome' = "none"
    /\ perfil' = NoProfile
    /\ juris' = NoJuris
    /\ evidence' = NoEvidence
    /\ court' = NoCourt
    /\ UNCHANGED <<arg, ret>>

Next == Receive \/ AnalyzePublic \/ EvidenceSearch \/ CourtAttempt \/ Respond

Spec == Init /\ [][Next]_vars

\* ------------------------------------------- specifications of the functions

ProbeWords == {<<"r", "e", "C", "A", "P", "T", "C", "H", "A">>, <<"A", "t", "t", "e", "n", "t", "i", "o", "n">>, <<"R", "e", "q", "u", "i", "r", "e", "d">>, <<"e", "n", "a", "b", "l", "e">>, <<"J", "a", "v", "a", "S", "c", "r", "i", "p", "t">>, <<"i", "s">>,
               <<"a", "c", "c", "e", "s", "s">>, <<"D", "e", "n", "i", "e", "d">>, <<"F", "o", "r", "b", "i", "d", "d", "e", "n">>}

ProbeInputs ==
    {[url |-> <<"https://www.tjsp.jus.br">>, up |-> Exception]}
    \cup {[url |-> <<"https://www.tjsp.jus.br">>, up |-> TextResponse(st, t)] :
            st \in {200, 403, 503}, t \in TextsOf(ProbeWords, MaxProbeWords)}

InitProbe == Idle /\ arg \in ProbeInputs /\ ret = <<>>

FetchProbe ==
    /\ handler = "idle"
    /\ handler' = "fetch_probe"
    /\ ret' = fetch_probe(arg.url, arg.up)
    /\ UNCHANGED <<req, today, upstream, calls, outcome, perfil, juris, evidence, court, arg>>

SpecProbe == InitProbe /\ [][FetchProbe]_vars

\* The dicts count_terms can return: every key, in the declared order
CountsInputs ==
    {[i \in 1..Len(KEY_ORDER) |-> [k |-> KEY_ORDER[i], v |-> h[i]]] :
        h \in [1..Len(KEY_ORDER) -> 0..MaxHits]}

InitTop == Idle /\ arg \in CountsInputs /\ ret = <<>>

TopFindings ==
    /\ handler = "idle"
    /\ handler' = "top_findings"
    /\ ret' = top_findings(arg)
    /\ UNCHANGED <<req, today, upstream, calls, outcome, perfil, juris, evidence, court, arg>>

SpecTop == InitTop /\ [][TopFindings]_vars

UfAlphabet == {" ", "s", "P", "m", "G", "x"}

LinksInputs ==
    {[uf |-> u, municipio |-> PyStr(<<"R", "i", "o">>), cnpj_digits |-> c, razao_social |-> n] :
        u \in {PyNone} \cup {PyStr(t) : t \in StringsOf(UfAlphabet, MaxUfLen)},
        c \in {<<>>, <<"1", "1", "2", "2", "2", "3", "3", "3", "0", "0", "0", "1", "4", "4">>},
        n \in NameInputs}

InitLinks == Idle /\ arg \in LinksInputs /\ ret = <<>>

TribunalLinks ==
    /\ handler = "idle"
    /\ handler' = "tribunal_links"
    /\ ret' = tribunal_links(arg.uf, arg.municipio, arg.cnpj_digits, arg.razao_social)
    /\ UNCHANGED <<req, today, upstream, calls, outcome, perfil, juris, evidence, court, arg>>

SpecLinks == InitLinks /\ [][TribunalLinks]_vars

\* ------------------------------------------------------------------ claims

Handlers == {"analyze_public", "evidence_search", "court_attempt"}

\* The request has been handled: the handler returned or raised.
Ended == handler \in Handlers /\ outcome \in {"cnpj_invalido", "returned", "raised"}

DigitsOf(chars) == SelectSeq(chars, LAMBDA c : c \in {"0", "1", "2", "3", "4", "5", "6", "7", "8", "9"})

Made == [i \in 1..Len(calls) |-> calls[i].to]

\* C1: at each of the three POST endpoints, a request whose cnpj does not have
\* exactly 14 characters once its non-digits are removed is answered with the
\* cnpj_invalido error, and no outbound call is made (no registry fetch, no
\* indexer fetch, no court probe).
C1_InvalidCnpjMakesNoCall ==
    (Ended /\ Len(DigitsOf(req.cnpj.s)) # 14) =>
        /\ outcome = "cnpj_invalido"
        /\ calls = <<>>
        /\ upstream = NoUpstream

C1_Witness ==
    /\ handler = "court_attempt"
    /\ req.cnpj = PyStr(<<"1", "1", "2", "2", "2", "3", "3", "3", "0", "0", "0", "1", "4", "x">>)
    /\ outcome = "cnpj_invalido"
    /\ calls = <<>>

\* C2: no exception crosses a handler boundary: with a valid CNPJ, whatever the
\* upstreams do (transport exception, non-200 status, HTTP 200 with any JSON
\* body, an object or not, with uf / municipio / address fields that are strings
\* or not), the handler ends by returning its response, never by raising.
C2_NoExceptionLeavesHandler == Ended => outcome # "raised"

\* C3: the response of court_attempt to a valid CNPJ holds exactly three attempt
\* records, in the order TJ, TRT_PJe_JT, TRF, and each of them carries a
\* non-empty manual_instructions list, whatever the probes did and whether or
\* not the court had a URL.
C3_AttemptsCarryInstructions ==
    (handler = "court_attempt" /\ outcome = "returned") =>
        /\ Len(court.attempts) = 3
        /\ [i \in 1..3 |-> court.attempts[i].source] = <<"TJ", "TRT_PJe_JT", "TRF">>
        /\ \A i \in 1..3 : /\ "manual_instructions" \in court.attempts[i].keys
                          /\ court.attempts[i].manual_instructions # <<>>

\* The blocking signatures, by reason, and the reasons from first to last looked for
Signatures ==
    [reason \in {"captcha", "cloudflare", "javascript_required", "access_denied"} |->
        CASE reason = "captcha" -> {<<"c", "a", "p", "t", "c", "h", "a">>, <<"r", "e", "c", "a", "p", "t", "c", "h", "a">>}
          [] reason = "cloudflare" -> {<<"c", "l", "o", "u", "d", "f", "l", "a", "r", "e">>, <<"a", "t", "t", "e", "n", "t", "i", "o", "n", " ", "r", "e", "q", "u", "i", "r", "e", "d">>}
          [] reason = "javascript_required" -> {<<"e", "n", "a", "b", "l", "e", " ", "j", "a", "v", "a", "s", "c", "r", "i", "p", "t">>, <<"j", "a", "v", "a", "s", "c", "r", "i", "p", "t", " ", "i", "s", " ", "r", "e", "q", "u", "i", "r", "e", "d">>}
          [] reason = "access_denied" -> {<<"a", "c", "c", "e", "s", "s", " ", "d", "e", "n", "i", "e", "d">>, <<"f", "o", "r", "b", "i", "d", "d", "e", "n">>}]

ReasonRank == <<"captcha", "cloudflare", "javascript_required", "access_denied">>

Shows(text, reason) == \E phrase \in Signatures[reason] : Contains(Lower(text), phrase)

\* C4: fetch_probe answers ok = true exactly when the GET completed with status
\* 200 and the body shows no blocking signature; when the GET raises, the result
\* has ok = false and an error and no block_reason at all; a response whose body
\* shows a signature has ok = false and the block_reason of the first signature
\* looked for that the body shows.
C4_ProbeReachability ==
    handler = "fetch_probe" =>
        /\ ret.ok <=> (/\ ~arg.up.exc
                       /\ arg.up.status = 200
                       /\ \A reason \in DOMAIN Signatures : ~Shows(arg.up.text, reason))
        /\ arg.up.exc => (~ret.ok /\ "error" \in ret.keys /\ "block_reason" \notin ret.keys)
        /\ \A i \in 1..Len(ReasonRank) :
              (/\ ~arg.up.exc
               /\ Shows(arg.up.text, ReasonRank[i])
               /\ \A j \in 1..(i - 1) : ~Shows(arg.up.text, ReasonRank[j]))
              => (~ret.ok /\ "block_reason" \in ret.keys /\ ret.block_reason = ReasonRank[i])
        /\ (~arg.up.exc /\ \A reason \in DOMAIN Signatures : ~Shows(arg.up.text, reason))
              => ret.block_reason = "None"

C4_Witness ==
    /\ handler = "fetch_probe"
    /\ arg.up.status = 200
    /\ Contains(arg.up.text, <<"r", "e", "C", "A", "P", "T", "C", "H", "A">>)
    /\ Contains(arg.up.text, <<"F", "o", "r", "b", "i", "d", "d", "e", "n">>)
    /\ ~ret.ok
    /\ ret.block_reason = "captcha"

\* The registry fetch failed: a transport exception, a status other than 200, or
\* a 200 whose body is not JSON.
RegistryFailed == upstream["registry"].exc \/ upstream["registry"].status # 200
                  \/ ~upstream["registry"].json_ok

\* C5: in analyze_public with a valid CNPJ, when the registry fetch fails the
\* handler still returns perfil and jurisdicao: limitacoes is non-empty, fontes
\* records the failed source, perfil.uf is null and jurisdicao's uf, trf and trt
\* are null; when the fetch succeeds, the profile returned has an empty
\* limitacoes and a fontes that records the successful source.
C5_RegistryFailureDegrades ==
    (handler = "analyze_public" /\ outcome \in {"returned", "raised"}) =>
        /\ RegistryFailed =>
              /\ outcome = "returned"
              /\ perfil.limitacoes # <<>>
              /\ perfil.fontes = <<"BrasilAPI CNPJ (falhou)">>
              /\ perfil.uf = PyNone
              /\ juris.uf = PyNone /\ juris.trf = PyNone /\ juris.trt = PyNone
        /\ (~RegistryFailed /\ outcome = "returned") =>
              /\ perfil.limitacoes = <<>>
              /\ perfil.fontes = <<"BrasilAPI CNPJ (fonte pública)">>

C5_Witness ==
    /\ handler = "analyze_public"
    /\ outcome = "returned"
    /\ upstream["registry"].status = 500
    /\ perfil.limitacoes # <<>>
    /\ juris.trf = PyNone

SourceOk(to) == ~upstream[to].exc /\ upstream[to].status = 200

Listed(list, source) == Cardinality({i \in 1..Len(list) : list[i].source = source})

\* C6: in evidence_search with a valid CNPJ, whatever the two indexer fetches do
\* (ok, non-200, exception, each on its own), the handler returns; each source
\* is once in sources when its fetch was ok and once in limitations when not,
\* and in the other list not at all, so index_sources_ok + index_sources_blocked
\* = 2; term_counts has one non-negative entry for every key of the taxonomy;
\* and when both fetches fail every count is 0 and top_findings is empty.
C6_EvidenceIsolatesSources ==
    (handler = "evidence_search" /\ outcome \in {"returned", "raised"}) =>
        /\ outcome = "returned"
        /\ \A source \in {"jusbrasil", "escavador"} :
              /\ Listed(evidence.sources, source) = (IF SourceOk(source) THEN 1 ELSE 0)
              /\ Listed(evidence.limitations, source) = (IF SourceOk(source) THEN 0 ELSE 1)
        /\ evidence.signals.index_sources_ok = Len(evidence.sources)
        /\ evidence.signals.index_sources_blocked = Len(evidence.limitations)
        /\ evidence.signals.index_sources_ok + evidence.signals.index_sources_blocked = 2
        /\ Len(evidence.signals.term_counts) = Len(KEY_ORDER)
        /\ \A i \in 1..Len(KEY_ORDER) :
              /\ evidence.signals.term_counts[i].k = KEY_ORDER[i]
              /\ evidence.signals.term_counts[i].v \in Nat
        /\ (~SourceOk("jusbrasil") /\ ~SourceOk("escavador")) =>
              /\ \A i \in 1..Len(KEY_ORDER) : evidence.signals.term_counts[i].v = 0
              /\ evidence.signals.top_findings = <<>>

C6_Witness ==
    /\ handler = "evidence_search"
    /\ outcome = "returned"
    /\ upstream["jusbrasil"].exc
    /\ SourceOk("escavador")
    /\ evidence.signals.index_sources_ok = 1
    /\ evidence.signals.index_sources_blocked = 1
    /\ evidence.signals.top_findings # <<>>

KeyIndex(key) == CHOOSE i \in 1..Len(KEY_ORDER) : KEY_ORDER[i] = key

\* one finding ranks before another: more hits, or as many and an earlier key
Before(f, g) == f.hits > g.hits \/ (f.hits = g.hits /\ KeyIndex(f.term) < KeyIndex(g.term))

\* C7: top_findings returns exactly the entries with count > 0, in descending
\* order of count, entries of equal count in the taxonomy's key order, cut to at
\* most 6 entries; what is cut ranks after everything kept (with all 7 terms
\* positive: the smallest count, the last in key order among ties).
C7_TopFindingsRanking ==
    handler = "top_findings" =>
        LET positive == {[term |-> arg[i].k, hits |-> arg[i].v] : i \in {j \in 1..Len(arg) : arg[j].v > 0}}
            kept     == {ret[i] : i \in 1..Len(ret)}
        IN  /\ kept \subseteq positive
            /\ Len(ret) = (IF Cardinality(positive) < 6 THEN Cardinality(positive) ELSE 6)
            /\ \A i \in 1..Len(ret) : \A j \in (i + 1)..Len(ret) : Before(ret[i], ret[j])
            /\ \A f \in kept : \A g \in positive \ kept : Before(f, g)

C7_Witness ==
    /\ handler = "top_findings"
    /\ \A i \in 1..Len(arg) : arg[i].v > 0
    /\ arg[1].v = 1 /\ arg[2].v = 1 /\ arg[7].v = 2
    /\ Len(ret) = 6
    /\ ret[1].term = "cobranca"
    /\ \A i \in 1..6 : ret[i].term # "trabalhista"

\* the state as given, upper-cased and trimmed
Code(uf) == IF uf = PyNone THEN <<>> ELSE Strip(Upper(uf.s))

\* C8: for every state given to tribunal_links (null, blank, any case, blanks
\* around it), trf is null when the upper-cased trimmed code is null or not in
\* the federal table and is the table's region otherwise, and trt likewise
\* against the labor table; both are null when the uf returned is null; and
\* links.trf_home is non-null exactly when trf is.
C8_RegionsFollowTables ==
    handler = "tribunal_links" =>
        /\ ret.uf = (IF Code(arg.uf) = <<>> THEN PyNone ELSE PyStr(Code(arg.uf)))
        /\ ret.trf = (IF Code(arg.uf) \in DOMAIN TRF_BY_UF
                      THEN PyStr(<<TRF_BY_UF[Code(arg.uf)]>>) ELSE PyNone)
        /\ ret.trt = (IF Code(arg.uf) \in DOMAIN TRT_BY_UF
                      THEN PyStr(<<TRT_BY_UF[Code(arg.uf)]>>) ELSE PyNone)
        /\ (ret.uf = PyNone => (ret.trf = PyNone /\ ret.trt = PyNone))
        /\ (ret.links.trf_home # PyNone <=> ret.trf # PyNone)

C8_Witness ==
    /\ handler = "tribunal_links"
    /\ arg.uf = PyStr(<<" ", "s", "P">>)
    /\ ret.uf = PyStr(<<"S", "P">>)
    /\ ret.trf = PyStr(<<"TRF3">>)
    /\ ret.trt = PyStr(<<"TRT2/TRT15">>)
    /\ ret.links.trf_home = PyStr(<<"https://www.trf3.jus.br">>)

\* C9: the idade_anos that analyze_public returns is never negative: it is null
\* or an integer >= 0.
C9_AgeNeverNegative ==
    (handler = "analyze_public" /\ outcome = "returned") =>
        \/ perfil.idade_anos = PyNone
        \/ (perfil.idade_anos.t = "int" /\ perfil.idade_anos.n >= 0)

\* C10: the outbound calls of one court_attempt request with a valid CNPJ are,
\* in this order and none twice: a registry lookup iff the request's uf is absent
\* or blank; a TJ probe iff a state code was resolved (else the
\* tj_url_indisponivel marker); a TRT probe, always; a TRF probe iff the state
\* resolved is in the federal table (else the trf_url_indisponivel marker).
C10_CourtCallSequence ==
    (handler = "court_attempt" /\ outcome \in {"returned", "raised"}) =>
        /\ Made = (IF req.uf = PyNone \/ Strip(req.uf.s) = <<>> THEN <<"registry">> ELSE <<>>)
                  \o (IF juris.uf # PyNone THEN <<"TJ">> ELSE <<>>)
                  \o <<"TRT_PJe_JT">>
                  \o (IF juris.uf # PyNone /\ juris.uf.s \in DOMAIN TRF_BY_UF THEN <<"TRF">> ELSE <<>>)
        /\ Len(court.attempts) = 3
        /\ (juris.uf = PyNone) <=> (court.attempts[1].probe.note = "tj_url_indisponivel")
        /\ court.attempts[2].probe.note # "trt_url_indisponivel"
        /\ (juris.uf = PyNone \/ juris.uf.s \notin DOMAIN TRF_BY_UF)
              <=> (court.attempts[3].probe.note = "trf_url_indisponivel")

====
